---- MODULE Spec2Model ----
(***************************************************************************)
(* Model of 2_build_baseline_rag.ipynb: the retrieval evaluation loops     *)
(* (baseline FAISS retriever and hybrid ensemble retriever) with their     *)
(* optional MLflow logging, the asynchronous answer generation, the        *)
(* thread-pool answer scoring, and the create-or-load vector store cell.   *)
(*                                                                         *)
(* Python floats are modelled as exact rationals [num, den]; a sum of      *)
(* reciprocal ranks is kept as an integer numerator over RRScale.          *)
(***************************************************************************)
EXTENDS Integers, Sequences, FiniteSets, TLC

\* ------------------------------------------------------------------ bounds

\* Number of distinct unique_id values in the corpus.
NumDocs == 2

\* Longest retriever_evaluation_data (records of prepared_data_test.jsonl).
MaxData == 3

\* Largest value of the num_examples setting explored.
MaxNumExamples == 3

\* Longest document list the ensemble retriever hands back.
MaxFused == 4

\* Longest test_data handed to the answer generation and scoring cells.
MaxBatch == 5

\* Number of times the vector store cell is run, each in a fresh kernel.
MaxRuns == 3

\* ------------------------------------------------- constants of the source

\* k = 3, the number of documents the FAISS retriever is asked for.
k == 3

\* NUM_SAMPLE_LLM_EVALUATION = 100
NUM_SAMPLE_LLM_EVALUATION == 100

\* ThreadPoolExecutor(max_workers=4)
max_workers == 4

\* ------------------------------------------------------------ Python helpers

Min(a, b) == IF a <= b THEN a ELSE b

Max(a, b) == IF a >= b THEN a ELSE b

RECURSIVE Gcd(_, _)
Gcd(a, b) == IF b = 0 THEN a ELSE Gcd(b, a % b)

RECURSIVE LcmUpTo(_)
LcmUpTo(n) == IF n <= 1 THEN 1 ELSE (LcmUpTo(n - 1) * n) \div Gcd(LcmUpTo(n - 1), n)

\* Common denominator of every 1 / (index + 1) the loops can add.
RRScale == LcmUpTo(Max(k, MaxFused))

\* list[:n]
PySlice(list, n) == SubSeq(list, 1, Min(n, Len(list)))

\* x in list
PyIn(x, list) == \E p \in 1..Len(list) : list[p] = x

\* list.index(x): the 0-based index of the first element equal to x
\* (only evaluated when x is in the list).
RECURSIVE PyIndex(_, _)
PyIndex(list, x) == IF Head(list) = x THEN 0 ELSE 1 + PyIndex(Tail(list), x)

RECURSIVE SeqsUpTo(_, _)
SeqsUpTo(S, n) == IF n = 0 THEN {<< >>} ELSE SeqsUpTo(S, n - 1) \cup [1..n -> S]

None == "None"

\* None where a float (a rational [num, den]) is expected.
NoneFloat == [num |-> 0, den |-> 0]

\* None where an exception [type, index] is expected.
NoException == [type |-> "None", index |-> 0]

\* -------------------------------------------------------------- data model

DocIds == 1..NumDocs

\* What retriever.invoke can hand back, as the list of metadata["unique_id"]:
\* the FAISS retriever returns at most k documents; the ensemble retriever is
\* a library object whose result is only known to be a list of documents.
RetrieverOutputs(retriever) ==
    IF retriever = "faiss" THEN SeqsUpTo(DocIds, k) ELSE SeqsUpTo(DocIds, MaxFused)

\* The exceptions one loop iteration can raise: the retriever call fails, or a
\* returned document has no "unique_id" in its metadata.
EvalExceptions == {"RetrieverError", "KeyError"}

VARIABLES
    retriever_evaluation_data,  \* list of {ref_doc_id, question}
    retriever,                  \* "faiss" (baseline cell) or "ensemble" (hybrid cell)
    num_examples,               \* the cell's num_examples setting
    i,                          \* examples the for loop has consumed
    correct,
    reciprocal_rank,            \* numerator over RRScale
    hit_rate,                   \* None until computed
    mrr,                        \* None until computed
    eval_pc,                    \* "loop", "done" or "error"
    eval_exc,                   \* the exception that ended the cell, or None
    sink,                       \* the metrics sink as the set-up cell found it
    mlflow_available,           \* "True", "False", or Unbound: the name was never assigned
    mlflow_runs,                \* the runs recorded on the tracking server
    ranks                       \* history: per consumed example, the 1-based first
                                \* position of ref_doc_id in the returned ids, 0 if absent

evalVars == << retriever_evaluation_data, retriever, num_examples, i, correct,
               reciprocal_rank, hit_rate, mrr, eval_pc, eval_exc, sink, mlflow_available,
               mlflow_runs, ranks >>

VARIABLES
    test_data,        \* the lines of prepared_data_test.jsonl, each a list of key/value pairs
    batch_pc,         \* "generate", "gather", "call", "submit", "collect", "done", "error"
    tasks,            \* per coroutine given to gather: "scheduled", "awaiting" or "done"
    gathered,         \* gather's result list, None where no result is set yet
    eval_data,        \* None until run_until_complete returns
    answer_column,    \* the row field passed as answers: "ground_truth" or "answer"
    questions,        \* the arguments of evaluate_rag_guardrail
    contexts,
    answers,
    results,          \* the list of futures
    work_queue,       \* the executor's queue: indices into results, oldest first
    threads,          \* worker threads the executor has started
    eval_rows,        \* None until every result() returned
    grounding_score,  \* None until returned
    relevance_score,  \* None until returned
    batch_exc,        \* the exception that ended the batch, or None
    invocations,      \* history: the arguments of every invoke_rag_eval_guardrail
                      \* call started, in the order the calls started
    reordered         \* history: the stages ("gather", "score") in which some call
                      \* completed while an earlier one was still unfinished

batchVars == << test_data, batch_pc, tasks, gathered, eval_data, answer_column, questions,
                contexts, answers, results, work_queue, threads, eval_rows,
                grounding_score, relevance_score, batch_exc, invocations,
                reordered >>

VARIABLES
    vector_store_file,  \* the file baseline_rag_vec_db.pkl: [exists, bytes]
    documents,          \* the corpus of this run, as the set of its unique_id values
    CREATE_NEW,         \* "True", "False", or Unbound before the existence check
    vec_db,             \* None until built or loaded
    index_pc,           \* "check", "branch", "done" or "error"
    index_exc,          \* the exception that ended the cell, or None
    run,                \* which run of the notebook this is
    file_at_check       \* history: the file as this run's existence check found it

indexVars == << vector_store_file, documents, CREATE_NEW, vec_db, index_pc, index_exc,
                run, file_at_check >>

vars == << evalVars, batchVars, indexVars >>

\* The first position of x in list by definition (not by scanning), 0 if absent.
FirstPosition(list, x) ==
    IF \E p \in 1..Len(list) : list[p] = x
    THEN CHOOSE p \in 1..Len(list) :
             list[p] = x /\ \A q \in 1..(p - 1) : list[q] # x
    ELSE 0

\* ---------------------------------------------- retrieval evaluation cells

\* Variant: the loop runs over every record, without the [:num_examples] slice.
EvalSliceWhole == retriever_evaluation_data

\* The examples the for loop iterates over.
EvalSlice == PySlice(retriever_evaluation_data, num_examples)

\* correct after one loop body on returned_doc_ids.
NextCorrect(c, ref, returned_doc_ids) ==
    IF PyIn(ref, returned_doc_ids) THEN c + 1 ELSE c

\* reciprocal_rank (average_rank in the hybrid cell) after one loop body.
NextReciprocalRank(rr, ref, returned_doc_ids) ==
    IF PyIn(ref, returned_doc_ids)
    THEN rr + RRScale \div (PyIndex(returned_doc_ids, ref) + 1)
    ELSE rr

\* hit_rate = correct / num_examples
HitRate(c, n) == [num |-> c, den |-> n]

\* mrr = reciprocal_rank / num_examples
Mrr(rr, n) == [num |-> rr, den |-> RRScale * n]

\* What the set-up cell can find: no mlflow_config.json, or a configuration
\* whose tracking server is reported inactive or active.
SinkStates == {"config_missing", "server_inactive", "server_active"}

\* A name no statement has assigned; reading it raises NameError.
Unbound == "Unbound"

\* mlflow_available after the set-up cell. The branch taken without a
\* configuration file only prints: it assigns nothing.
MlflowSetup(sink_state) ==
    IF sink_state = "config_missing" THEN Unbound
    ELSE IF sink_state = "server_active" THEN "True"
    ELSE "False"

\* The run name each evaluation cell logs under.
RunName(r) == IF r = "faiss" THEN "baseline_retriever" ELSE "hybrid_retriever"

EvalInit ==
    /\ retriever_evaluation_data \in
           { [p \in 1..Len(refs) |-> [ref_doc_id |-> refs[p], question |-> p]] :
                 refs \in SeqsUpTo(DocIds, MaxData) }
    /\ retriever \in {"faiss", "ensemble"}
    /\ num_examples \in 1..MaxNumExamples
    /\ i = 0
    /\ correct = 0
    /\ reciprocal_rank = 0
    /\ hit_rate = NoneFloat
    /\ mrr = NoneFloat
    /\ eval_pc = "loop"
    /\ eval_exc = None
    /\ sink \in SinkStates
    /\ mlflow_available = MlflowSetup(sink)
    /\ mlflow_runs = << >>
    /\ ranks = << >>

\* The evaluation cells are not being run.
EvalIdle ==
    /\ retriever_evaluation_data = << >>
    /\ retriever = "faiss"
    /\ num_examples = 1
    /\ i = 0
    /\ correct = 0
    /\ reciprocal_rank = 0
    /\ hit_rate = NoneFloat
    /\ mrr = NoneFloat
    /\ eval_pc = "idle"
    /\ eval_exc = None
    /\ sink = "server_inactive"
    /\ mlflow_available = MlflowSetup(sink)
    /\ mlflow_runs = << >>
    /\ ranks = << >>

\* One pass of the for loop body: invoke, collect the ids, update the counters.
EvalIteration ==
    /\ eval_pc = "loop"
    /\ i < Len(EvalSlice)
    /\ \E returned_doc_ids \in RetrieverOutputs(retriever) :
         LET ref == EvalSlice[i + 1].ref_doc_id IN
           /\ correct' = NextCorrect(correct, ref, returned_doc_ids)
           /\ reciprocal_rank' = NextReciprocalRank(reciprocal_rank, ref, returned_doc_ids)
           /\ ranks' = Append(ranks, FirstPosition(returned_doc_ids, ref))
    /\ i' = i + 1
    /\ UNCHANGED << retriever_evaluation_data, retriever, num_examples, hit_rate, mrr,
                    eval_pc, eval_exc, sink, mlflow_available, mlflow_runs >>
    /\ UNCHANGED batchVars
    /\ UNCHANGED indexVars

\* Variant: the exception is caught and the example skipped.
EvalIterationSkips ==
    /\ eval_pc = "loop"
    /\ i < Len(EvalSlice)
    /\ \E e \in EvalExceptions : eval_exc' = e
    /\ i' = i + 1
    /\ UNCHANGED << retriever_evaluation_data, retriever, num_examples, correct,
                    reciprocal_rank, hit_rate, mrr, eval_pc, sink, mlflow_available,
                    mlflow_runs, ranks >>
    /\ UNCHANGED batchVars
    /\ UNCHANGED indexVars

\* The loop body raises: nothing catches it, the cell ends without metrics.
EvalIterationRaises ==
    /\ eval_pc = "loop"
    /\ i < Len(EvalSlice)
    /\ \E e \in EvalExceptions : eval_exc' = e
    /\ eval_pc' = "error"
    /\ UNCHANGED << retriever_evaluation_data, retriever, num_examples, i, correct,
                    reciprocal_rank, hit_rate, mrr, sink, mlflow_available, mlflow_runs,
                    ranks >>
    /\ UNCHANGED batchVars
    /\ UNCHANGED indexVars

\* After the loop: hit_rate and mrr are computed and printed, then
\* "if mlflow_available:" reads the flag and, when it is true, logs the run.
EvalFinish ==
    /\ eval_pc = "loop"
    /\ i = Len(EvalSlice)
    /\ hit_rate' = HitRate(correct, num_examples)
    /\ mrr' = Mrr(reciprocal_rank, num_examples)
    /\ IF mlflow_available = Unbound
       THEN /\ eval_exc' = "NameError"
            /\ eval_pc' = "error"
            /\ UNCHANGED mlflow_runs
       ELSE IF mlflow_available = "True"
       THEN /\ mlflow_runs' = Append(mlflow_runs,
                                     [run_name |-> RunName(retriever),
                                      hit_rate |-> hit_rate', mrr |-> mrr'])
            /\ eval_pc' = "done"
            /\ UNCHANGED eval_exc
       ELSE /\ eval_pc' = "done"
            /\ UNCHANGED << eval_exc, mlflow_runs >>
    /\ UNCHANGED << retriever_evaluation_data, retriever, num_examples, i, correct,
                    reciprocal_rank, sink, mlflow_available, ranks >>
    /\ UNCHANGED batchVars
    /\ UNCHANGED indexVars

\* ------------------------------------------- asynchronous answer generation

\* A line of prepared_data_test.jsonl: the JSON object as its key/value pairs.
JsonLine(p) == << <<"question", <<"q", p>> >>, <<"answer", <<"truth", p>> >> >>

\* json.loads(line): the dict of the object's keys (a repeated key keeps its
\* last value).
JsonLoads(line) ==
    [key \in {line[p][1] : p \in 1..Len(line)} |->
        line[CHOOSE p \in 1..Len(line) :
                 line[p][1] = key /\ \A q \in (p + 1)..Len(line) : line[q][1] # key][2]]

\* rag_chain.ainvoke(question): the chain answers with the generated text and
\* the documents it retrieved for that question. The retriever and the model
\* are services; what they return is a function of the question (temperature 0).
RagChainResponse(question) ==
    [answer |-> <<"generated", question>>,
     context |-> [j \in 1..(1 + (question[2] % 2)) |->
                     [page_content |-> <<"page", question, j>>]]]

\* The row generate_answer_async builds from its example and the chain's response.
GenerateRow(example_line, response) ==
    LET example == JsonLoads(example_line)
        page_contents == [j \in 1..Len(response.context) |-> response.context[j].page_content]
    IN [question |-> example.question, answer |-> response.answer,
        contexts |-> page_contents, ground_truth |-> example.answer]

\* The examples the generation cell creates coroutines for.
GenSlice == PySlice(test_data, NUM_SAMPLE_LLM_EVALUATION)

\* Variant: results are kept in the order the coroutines complete.
GatherStoreCompletionOrder(res, t, row) ==
    [res EXCEPT ![1 + Cardinality({q \in 1..Len(tasks) : tasks[q] = "done"})] = row]

\* asyncio.gather keeps each awaitable's result at the awaitable's own position.
GatherStore(res, t, row) == [res EXCEPT ![t] = row]

\* ------------------------------------------------- thread-pool answer scoring

Metric(type, score) == [type |-> type, score |-> score]

\* The scores the guardrail service gives a (question, grounding source,
\* response) payload: floats in [0, 1], here the two ends. The service is
\* taken to score equal payloads equally.
GuardrailGrounding(args) == args[1][2] % 2

GuardrailRelevance(args) == IF args[3][1] = "truth" THEN 1 ELSE (args[1][2] \div 2) % 2

\* What bedrock_runtime.apply_guardrail can do for a payload: raise, or answer
\* with the filters of its contextual grounding assessment, in either order
\* and with either metric possibly missing.
GuardrailResponses(args) ==
    LET g == Metric("GROUNDING", GuardrailGrounding(args))
        r == Metric("RELEVANCE", GuardrailRelevance(args))
    IN {[raises |-> TRUE, filters |-> << >>]}
       \cup {[raises |-> FALSE, filters |-> f] :
               f \in {<< >>, <<g>>, <<r>>, <<g, r>>, <<r, g>>}}

\* [metric for metric in assessments if metric["type"] == type]
RECURSIVE FilterType(_, _)
FilterType(assessments, type) ==
    IF assessments = << >> THEN << >>
    ELSE IF Head(assessments).type = type
         THEN <<Head(assessments)>> \o FilterType(Tail(assessments), type)
         ELSE FilterType(Tail(assessments), type)

\* invoke_rag_eval_guardrail on the service's response: the returned dict, or
\* the exception it raises (the service's own, or IndexError from [...][0]).
InvokeRagEvalGuardrail(response) ==
    IF response.raises THEN [exception |-> "ClientError", row |-> None]
    ELSE IF FilterType(response.filters, "GROUNDING") = << >>
         THEN [exception |-> "IndexError", row |-> None]
    ELSE IF FilterType(response.filters, "RELEVANCE") = << >>
         THEN [exception |-> "IndexError", row |-> None]
    ELSE [exception |-> None,
          row |-> [grounding_score |-> FilterType(response.filters, "GROUNDING")[1].score,
                   relevance_score |-> FilterType(response.filters, "RELEVANCE")[1].score]]

\* "\n".join(context)
RECURSIVE JoinNewline(_)
JoinNewline(context) ==
    IF context = << >> THEN << >>
    ELSE IF Len(context) = 1 THEN <<Head(context)>>
    ELSE <<Head(context), "\n">> \o JoinNewline(Tail(context))

\* Variant: the zip stops one triple short.
Zip3OffByOne(qs, cs, as) ==
    [p \in 1..(Min(Len(qs), Min(Len(cs), Len(as))) - 1) |-> <<qs[p], cs[p], as[p]>>]

\* zip(questions, contexts, answers): as long as the shortest of the three.
Zip3(qs, cs, as) ==
    [p \in 1..Min(Len(qs), Min(Len(cs), Len(as))) |-> <<qs[p], cs[p], as[p]>>]

\* The future executor.submit returns for one zipped triple.
SubmitFuture(triple) ==
    [args |-> <<triple[1], JoinNewline(triple[2]), triple[3]>>,
     state |-> "PENDING", outcome |-> [exception |-> None, row |-> None]]

Running == {f \in 1..Len(results) : results[f].state = "RUNNING"}

\* Variant: a thread is started for every submitted call that finds none idle.
AdjustThreadCountUncapped(n, idle) == IF idle = 0 THEN n + 1 ELSE n

\* The executor starts another worker thread for a submitted call only while
\* it has fewer than max_workers threads and none of them is idle.
AdjustThreadCount(n, idle) == IF idle = 0 /\ n < max_workers THEN n + 1 ELSE n

\* A worker stores what the call returned or raised in the call's own future.
SetOutcome(res, f, outcome) ==
    [res EXCEPT ![f] = [@ EXCEPT !.state = "FINISHED", !.outcome = outcome]]

Failed(res) == {f \in 1..Len(res) : res[f].state = "FINISHED" /\ res[f].outcome.exception # None}

\* Variant: futures holding an exception are skipped.
CollectRowsSkippingFailures(res) ==
    [exception |-> NoException,
     rows |-> LET ok == {f \in 1..Len(res) : res[f].outcome.exception = None}
                  nth[n \in 0..Len(res)] ==
                      IF n = 0 THEN 0
                      ELSE CHOOSE f \in ok : f > nth[n - 1] /\ \A g \in ok : g > nth[n - 1] => f <= g
              IN [n \in 1..Cardinality(ok) |-> res[nth[n]].outcome.row]]

\* [result.result() for result in results]: the rows in the order of results;
\* the first future holding an exception raises it and ends the comprehension.
CollectRows(res) ==
    IF Failed(res) # {}
    THEN LET f == CHOOSE f \in Failed(res) : \A g \in Failed(res) : f <= g
         IN [exception |-> [type |-> res[f].outcome.exception, index |-> f], rows |-> None]
    ELSE [exception |-> NoException, rows |-> [f \in 1..Len(res) |-> res[f].outcome.row]]

RECURSIVE SumSeq(_)
SumSeq(xs) == IF xs = << >> THEN 0 ELSE Head(xs) + SumSeq(Tail(xs))

\* sum(scores) / len(scores)
Mean(xs) == [num |-> SumSeq(xs), den |-> Len(xs)]

BatchInit ==
    /\ test_data \in {[p \in 1..n |-> JsonLine(p)] : n \in 0..MaxBatch}
    /\ batch_pc = "generate"
    /\ tasks = << >>
    /\ gathered = << >>
    /\ eval_data = None
    /\ answer_column = None
    /\ questions = << >>
    /\ contexts = << >>
    /\ answers = << >>
    /\ results = << >>
    /\ work_queue = << >>
    /\ threads = 0
    /\ eval_rows = None
    /\ grounding_score = NoneFloat
    /\ relevance_score = NoneFloat
    /\ batch_exc = NoException
    /\ invocations = << >>
    /\ reordered = {}

\* The generation and scoring cells are not being run.
BatchIdle ==
    /\ test_data = << >>
    /\ batch_pc = "idle"
    /\ tasks = << >>
    /\ gathered = << >>
    /\ eval_data = None
    /\ answer_column = None
    /\ questions = << >>
    /\ contexts = << >>
    /\ answers = << >>
    /\ results = << >>
    /\ work_queue = << >>
    /\ threads = 0
    /\ eval_rows = None
    /\ grounding_score = NoneFloat
    /\ relevance_score = NoneFloat
    /\ batch_exc = NoException
    /\ invocations = << >>
    /\ reordered = {}

\* The for loop creates one coroutine per example and gather schedules them all.
GatherStart ==
    /\ batch_pc = "generate"
    /\ tasks' = [t \in 1..Len(GenSlice) |-> "scheduled"]
    /\ gathered' = [t \in 1..Len(GenSlice) |-> None]
    /\ batch_pc' = "gather"
    /\ UNCHANGED << test_data, eval_data, answer_column, questions, contexts, answers,
                    results, work_queue, threads, eval_rows, grounding_score,
                    relevance_score, batch_exc >>
    /\ UNCHANGED << invocations, reordered >>
    /\ UNCHANGED evalVars
    /\ UNCHANGED indexVars

\* A coroutine runs up to its await: the chain is invoked with its question.
TaskStart(t) ==
    /\ batch_pc = "gather"
    /\ tasks[t] = "scheduled"
    /\ tasks' = [tasks EXCEPT ![t] = "awaiting"]
    /\ UNCHANGED << test_data, batch_pc, gathered, eval_data, answer_column, questions,
                    contexts, answers, results, work_queue, threads, eval_rows,
                    grounding_score, relevance_score, batch_exc >>
    /\ UNCHANGED << invocations, reordered >>
    /\ UNCHANGED evalVars
    /\ UNCHANGED indexVars

\* The chain answers a waiting coroutine, which builds and returns its row.
TaskComplete(t) ==
    /\ batch_pc = "gather"
    /\ tasks[t] = "awaiting"
    /\ tasks' = [tasks EXCEPT ![t] = "done"]
    /\ gathered' = GatherStore(gathered, t,
                       GenerateRow(GenSlice[t],
                                   RagChainResponse(JsonLoads(GenSlice[t]).question)))
    /\ UNCHANGED << test_data, batch_pc, eval_data, answer_column, questions, contexts,
                    answers, results, work_queue, threads, eval_rows, grounding_score,
                    relevance_score, batch_exc >>
    /\ reordered' = IF \E q \in 1..(t - 1) : tasks[q] # "done"
                    THEN reordered \cup {"gather"} ELSE reordered
    /\ UNCHANGED invocations
    /\ UNCHANGED evalVars
    /\ UNCHANGED indexVars

\* The chain fails for a waiting coroutine: gather raises, eval_data is never bound.
TaskRaises(t) ==
    /\ batch_pc = "gather"
    /\ tasks[t] = "awaiting"
    /\ batch_pc' = "error"
    /\ batch_exc' = [type |-> "GenerationError", index |-> t]
    /\ UNCHANGED << test_data, tasks, gathered, eval_data, answer_column, questions,
                    contexts, answers, results, work_queue, threads, eval_rows,
                    grounding_score, relevance_score >>
    /\ UNCHANGED << invocations, reordered >>
    /\ UNCHANGED evalVars
    /\ UNCHANGED indexVars

\* Every coroutine returned: run_until_complete hands back gather's list.
GatherReturn ==
    /\ batch_pc = "gather"
    /\ \A t \in 1..Len(tasks) : tasks[t] = "done"
    /\ eval_data' = gathered
    /\ batch_pc' = "call"
    /\ UNCHANGED << test_data, tasks, gathered, answer_column, questions, contexts,
                    answers, results, work_queue, threads, eval_rows, grounding_score,
                    relevance_score, batch_exc >>
    /\ UNCHANGED << invocations, reordered >>
    /\ UNCHANGED evalVars
    /\ UNCHANGED indexVars

\* evaluate_rag_guardrail is called on the columns of eval_data, with the ground
\* truth answers or with the generated ones.
EvaluateCall ==
    /\ batch_pc = "call"
    /\ \E column \in {"ground_truth", "answer"} :
         /\ answer_column' = column
         /\ answers' = [p \in 1..Len(eval_data) |-> eval_data[p][column]]
    /\ questions' = [p \in 1..Len(eval_data) |-> eval_data[p].question]
    /\ contexts' = [p \in 1..Len(eval_data) |-> eval_data[p].contexts]
    /\ results' = << >>
    /\ batch_pc' = "submit"
    /\ UNCHANGED << test_data, tasks, gathered, eval_data, work_queue, threads, eval_rows,
                    grounding_score, relevance_score, batch_exc >>
    /\ UNCHANGED << invocations, reordered >>
    /\ UNCHANGED evalVars
    /\ UNCHANGED indexVars

\* One pass of the submit loop.
Submit ==
    /\ batch_pc = "submit"
    /\ Len(results) < Len(Zip3(questions, contexts, answers))
    /\ results' = Append(results,
                         SubmitFuture(Zip3(questions, contexts, answers)[Len(results) + 1]))
    /\ work_queue' = Append(work_queue, Len(results) + 1)
    /\ threads' = AdjustThreadCount(threads, threads - Cardinality(Running))
    /\ UNCHANGED << test_data, batch_pc, tasks, gathered, eval_data, answer_column,
                    questions, contexts, answers, eval_rows, grounding_score,
                    relevance_score, batch_exc >>
    /\ UNCHANGED << invocations, reordered >>
    /\ UNCHANGED evalVars
    /\ UNCHANGED indexVars

\* An idle worker thread takes the oldest queued call and starts it.
WorkerStart ==
    /\ work_queue # << >>
    /\ Cardinality(Running) < threads
    /\ results' = [results EXCEPT ![Head(work_queue)].state = "RUNNING"]
    /\ work_queue' = Tail(work_queue)
    /\ invocations' = Append(invocations, results[Head(work_queue)].args)
    /\ UNCHANGED << test_data, batch_pc, tasks, gathered, eval_data, answer_column,
                    questions, contexts, answers, threads, eval_rows, grounding_score,
                    relevance_score, batch_exc >>
    /\ UNCHANGED reordered
    /\ UNCHANGED evalVars
    /\ UNCHANGED indexVars

\* A running call returns or raises; its future keeps the outcome.
WorkerFinish(f) ==
    /\ f \in Running
    /\ \E response \in GuardrailResponses(results[f].args) :
         results' = SetOutcome(results, f, InvokeRagEvalGuardrail(response))
    /\ UNCHANGED << test_data, batch_pc, tasks, gathered, eval_data, answer_column,
                    questions, contexts, answers, work_queue, threads, eval_rows,
                    grounding_score, relevance_score, batch_exc >>
    /\ reordered' = IF \E g \in 1..(f - 1) : results[g].state # "FINISHED"
                    THEN reordered \cup {"score"} ELSE reordered
    /\ UNCHANGED invocations
    /\ UNCHANGED evalVars
    /\ UNCHANGED indexVars

\* Variant: the with block is left as soon as some call has failed, and the
\* calls still queued are dropped.
ExitWithOnFirstFailure ==
    /\ batch_pc = "submit"
    /\ Len(results) = Len(Zip3(questions, contexts, answers))
    /\ \/ \A f \in 1..Len(results) : results[f].state = "FINISHED"
       \/ Failed(results) # {}
    /\ threads' = 0
    /\ work_queue' = << >>
    /\ batch_pc' = "collect"
    /\ UNCHANGED << test_data, tasks, gathered, eval_data, answer_column, questions,
                    contexts, answers, results, eval_rows, grounding_score,
                    relevance_score, batch_exc >>
    /\ UNCHANGED << invocations, reordered >>
    /\ UNCHANGED evalVars
    /\ UNCHANGED indexVars

\* Leaving the with block: shutdown(wait=True) returns once every submitted
\* call has finished and the worker threads have ended.
ExitWith ==
    /\ batch_pc = "submit"
    /\ Len(results) = Len(Zip3(questions, contexts, answers))
    /\ \A f \in 1..Len(results) : results[f].state = "FINISHED"
    /\ threads' = 0
    /\ batch_pc' = "collect"
    /\ UNCHANGED << test_data, tasks, gathered, eval_data, answer_column, questions,
                    contexts, answers, results, work_queue, eval_rows, grounding_score,
                    relevance_score, batch_exc >>
    /\ UNCHANGED << invocations, reordered >>
    /\ UNCHANGED evalVars
    /\ UNCHANGED indexVars

\* The rest of evaluate_rag_guardrail: collect the rows, average, return.
Collect ==
    /\ batch_pc = "collect"
    /\ LET got == CollectRows(results)
           grounding_scores == [p \in 1..Len(got.rows) |-> got.rows[p].grounding_score]
           relevance_scores == [p \in 1..Len(got.rows) |-> got.rows[p].relevance_score]
       IN IF got.exception # NoException
          THEN /\ batch_exc' = got.exception
               /\ batch_pc' = "error"
               /\ UNCHANGED << eval_rows, grounding_score, relevance_score >>
          ELSE IF Len(got.rows) = 0
          THEN /\ batch_exc' = [type |-> "ZeroDivisionError", index |-> 0]
               /\ batch_pc' = "error"
               /\ eval_rows' = got.rows
               /\ UNCHANGED << grounding_score, relevance_score >>
          ELSE /\ eval_rows' = got.rows
               /\ grounding_score' = Mean(grounding_scores)
               /\ relevance_score' = Mean(relevance_scores)
               /\ batch_pc' = "done"
               /\ UNCHANGED batch_exc
    /\ UNCHANGED << test_data, tasks, gathered, eval_data, answer_column, questions,
                    contexts, answers, results, work_queue, threads >>
    /\ UNCHANGED << invocations, reordered >>
    /\ UNCHANGED evalVars
    /\ UNCHANGED indexVars

\* ------------------------------------------------------ vector store cell

\* No file at the path vector_store_file.
NoFile == [exists |-> FALSE, bytes |-> << >>]

\* None where a vector store is expected.
NoVecDb == [docs |-> {}]

\* The corpora a run can start from.
Corpora == (SUBSET DocIds) \ {{}}

\* FAISS.from_documents(documents, embed_model)
FromDocuments(docs) == [docs |-> docs]

\* vec_db.serialize_to_bytes()
SerializeToBytes(db) == <<"faiss", db.docs>>

\* FAISS.deserialize_from_bytes(serialized=...)
DeserializeFromBytes(serialized) == [docs |-> serialized[2]]

\* pickle.dump(obj, file): the bytes the file holds afterwards.
PickleDump(obj) == <<"pickle", obj>>

\* pickle.load(file) raises EOFError on a file that holds no complete pickle.
PickleLoadRaises(bytes) == Len(bytes) < 2

\* pickle.load(file)
PickleLoad(bytes) == bytes[2]

\* Variant: the store is rebuilt in every run.
CreateNewAlways(exists) == "True"

\* CREATE_NEW as the existence check sets it.
CreateNew(exists) == IF ~exists THEN "True" ELSE "False"

IndexInit ==
    /\ vector_store_file = NoFile
    /\ documents \in Corpora
    /\ CREATE_NEW = Unbound
    /\ vec_db = NoVecDb
    /\ index_pc = "check"
    /\ index_exc = None
    /\ run = 1
    /\ file_at_check = NoFile

\* The vector store cell is not being run.
IndexIdle ==
    /\ vector_store_file = NoFile
    /\ documents = DocIds
    /\ CREATE_NEW = Unbound
    /\ vec_db = NoVecDb
    /\ index_pc = "idle"
    /\ index_exc = None
    /\ run = 1
    /\ file_at_check = NoFile

\* if not Path(vector_store_file).exists(): CREATE_NEW = True else: False
CheckExists ==
    /\ index_pc = "check"
    /\ CREATE_NEW' = CreateNew(vector_store_file.exists)
    /\ file_at_check' = vector_store_file
    /\ index_pc' = "branch"
    /\ UNCHANGED << vector_store_file, documents, vec_db, index_exc, run >>
    /\ UNCHANGED << evalVars, batchVars >>

\* The CREATE_NEW branch: build the store, open the file for writing, dump.
Create ==
    /\ index_pc = "branch"
    /\ CREATE_NEW = "True"
    /\ vec_db' = FromDocuments(documents)
    /\ vector_store_file' = [exists |-> TRUE, bytes |-> PickleDump(SerializeToBytes(vec_db'))]
    /\ index_pc' = "done"
    /\ UNCHANGED << documents, CREATE_NEW, index_exc, run, file_at_check >>
    /\ UNCHANGED << evalVars, batchVars >>

\* The CREATE_NEW branch raises: in from_documents (the embedding service
\* fails; no file yet), or in pickle.dump after open(..., "wb") has created
\* the file (the file is left without a complete pickle).
CreateRaises ==
    /\ index_pc = "branch"
    /\ CREATE_NEW = "True"
    /\ \/ /\ index_exc' = "EmbeddingError"
          /\ UNCHANGED << vec_db, vector_store_file >>
       \/ /\ index_exc' = "OSError"
          /\ vec_db' = FromDocuments(documents)
          /\ vector_store_file' = [exists |-> TRUE, bytes |-> << >>]
    /\ index_pc' = "error"
    /\ UNCHANGED << documents, CREATE_NEW, run, file_at_check >>
    /\ UNCHANGED << evalVars, batchVars >>

\* The other branch: check the file again, unpickle it, deserialize the store.
Load ==
    /\ index_pc = "branch"
    /\ CREATE_NEW = "False"
    /\ IF ~vector_store_file.exists
       THEN /\ index_exc' = "FileNotFoundError"
            /\ index_pc' = "error"
            /\ UNCHANGED vec_db
       ELSE IF PickleLoadRaises(vector_store_file.bytes)
       THEN /\ index_exc' = "EOFError"
            /\ index_pc' = "error"
            /\ UNCHANGED vec_db
       ELSE /\ vec_db' = DeserializeFromBytes(PickleLoad(vector_store_file.bytes))
            /\ index_pc' = "done"
            /\ UNCHANGED index_exc
    /\ UNCHANGED << vector_store_file, documents, CREATE_NEW, run, file_at_check >>
    /\ UNCHANGED << evalVars, batchVars >>

\* The notebook is run again in a fresh kernel, on the corpus of that day:
\* no name is bound, the file system is as the last run left it.
RunAgain ==
    /\ index_pc \in {"done", "error"}
    /\ run < MaxRuns
    /\ run' = run + 1
    /\ documents' \in Corpora
    /\ CREATE_NEW' = Unbound
    /\ vec_db' = NoVecDb
    /\ index_pc' = "check"
    /\ index_exc' = None
    /\ UNCHANGED << vector_store_file, file_at_check >>
    /\ UNCHANGED << evalVars, batchVars >>

\* --------------------------------------------------------- specifications

\* The retrieval evaluation cells.
Init == EvalInit /\ BatchIdle /\ IndexIdle

Next ==
    \/ EvalIteration
    \/ EvalIterationRaises
    \/ EvalFinish

Spec == Init /\ [][Next]_vars

\* The answer generation and answer scoring cells.
InitBatch == BatchInit /\ EvalIdle /\ IndexIdle

NextBatch ==
    \/ GatherStart
    \/ \E t \in 1..Len(tasks) : TaskStart(t)
    \/ \E t \in 1..Len(tasks) : TaskComplete(t)
    \/ \E t \in 1..Len(tasks) : TaskRaises(t)
    \/ GatherReturn
    \/ EvaluateCall
    \/ Submit
    \/ WorkerStart
    \/ \E f \in 1..Len(results) : WorkerFinish(f)
    \/ ExitWith
    \/ Collect

SpecBatch == InitBatch /\ [][NextBatch]_vars

\* The vector store cell, over successive runs of the notebook.
InitIndex == IndexInit /\ EvalIdle /\ BatchIdle

NextIndex ==
    \/ CheckExists
    \/ Create
    \/ CreateRaises
    \/ Load
    \/ RunAgain

SpecIndex == InitIndex /\ [][NextIndex]_vars

\* ------------------------------------------------------- rational helpers

RatEq(a, b) == a.num * b.den = b.num * a.den

RECURSIVE SumReciprocal(_)
SumReciprocal(rs) ==
    IF rs = << >> THEN 0
    ELSE (IF Head(rs) = 0 THEN 0 ELSE RRScale \div Head(rs)) + SumReciprocal(Tail(rs))

Hits(rs) == Cardinality({p \in 1..Len(rs) : rs[p] > 0})

\* ------------------------------------------------------------------ claims

\* C1: the MRR of a finished evaluation is the sum over all evaluated examples
\* of 1 / (first position of ref_doc_id), 0 when absent, divided by the number
\* of examples evaluated.
C1_MrrOverEvaluated ==
    (eval_pc = "done" /\ Len(ranks) > 0)
        => RatEq(mrr, [num |-> SumReciprocal(ranks), den |-> RRScale * Len(ranks)])

\* C2: the Hit Rate of a finished evaluation is the number of evaluated examples
\* whose ref_doc_id was returned, divided by the number of examples evaluated.
C2_HitRateOverEvaluated ==
    (eval_pc = "done" /\ Len(ranks) > 0)
        => RatEq(hit_rate, [num |-> Hits(ranks), den |-> Len(ranks)])

\* Both hold of every finished evaluation whose data has at least num_examples
\* records, where the loop consumes exactly num_examples examples.
FullSliceMetrics ==
    (eval_pc = "done" /\ Len(retriever_evaluation_data) >= num_examples)
        => /\ Len(ranks) = num_examples
           /\ RatEq(mrr, [num |-> SumReciprocal(ranks), den |-> RRScale * Len(ranks)])
           /\ RatEq(hit_rate, [num |-> Hits(ranks), den |-> Len(ranks)])

\* The payload evaluate_rag_guardrail has to score for its p-th triple.
Payload(p) == <<questions[p], JoinNewline(contexts[p]), answers[p]>>

Ended == batch_pc \in {"done", "error"}

\* The lowest index among the futures holding an exception.
LowestFailed == CHOOSE f \in Failed(results) : \A g \in Failed(results) : f <= g

NoMeans == grounding_score = NoneFloat /\ relevance_score = NoneFloat

C4_OneScorePerTriple ==
    batch_pc = "done"
        => /\ Len(eval_rows) = Len(questions)
           /\ Len(eval_rows) = Len(contexts)
           /\ Len(eval_rows) = Len(answers)
           /\ grounding_score.den = Len(questions)
           /\ relevance_score.den = Len(questions)
           /\ Len(invocations) = Len(questions)
           /\ \A p \in 1..Len(questions) :
                Cardinality({c \in 1..Len(invocations) : invocations[c] = Payload(p)}) = 1

\* Means were returned for a batch of several triples.
C4_Witness ==
    /\ batch_pc = "done"
    /\ Len(questions) >= 2
    /\ Len(invocations) >= 2

\* The generation stage has handed back eval_data.
Generated ==
    \/ batch_pc \in {"call", "submit", "collect", "done"}
    \/ batch_pc = "error" /\ batch_exc.type # "GenerationError"

\* C5: whatever the completion order, row p of eval_data pairs the question,
\* generated answer, contexts and ground truth of example p, row p of eval_rows
\* holds the scores of triple p, and the means are those of the inputs.
C5_ResultsPairedByPosition ==
    /\ Generated =>
         /\ Len(eval_data) = Len(GenSlice)
         /\ \A p \in 1..Len(eval_data) :
              LET example == JsonLoads(test_data[p]) IN
                /\ eval_data[p].question = example.question
                /\ eval_data[p].ground_truth = example.answer
                /\ eval_data[p].answer = <<"generated", example.question>>
                /\ Len(eval_data[p].contexts) >= 1
                /\ \A j \in 1..Len(eval_data[p].contexts) :
                     eval_data[p].contexts[j] = <<"page", example.question, j>>
    /\ batch_pc = "done" =>
         /\ \A p \in 1..Len(eval_rows) :
              /\ eval_rows[p].grounding_score = GuardrailGrounding(Payload(p))
              /\ eval_rows[p].relevance_score = GuardrailRelevance(Payload(p))
         /\ grounding_score =
              Mean([p \in 1..Len(questions) |-> GuardrailGrounding(Payload(p))])
         /\ relevance_score =
              Mean([p \in 1..Len(questions) |-> GuardrailRelevance(Payload(p))])

\* A later example's answer arrived while an earlier one was still awaited, a
\* later triple was scored while an earlier one was still running, and the
\* batch returned means.
C5_Witness ==
    /\ batch_pc = "done"
    /\ reordered = {"gather", "score"}
    /\ Len(eval_rows) >= 3
    /\ eval_rows[1].grounding_score # eval_rows[2].grounding_score

\* C6: at most 4 scoring calls are running at any time.
C6_AtMostFourRunning == Cardinality(Running) <= 4

\* Four calls are running while further submitted calls wait in the queue.
C6_Witness ==
    /\ Cardinality(Running) = 4
    /\ work_queue # << >>

\* ------------------------------------------------------------ metrics sink

\* C11: whatever the set-up cell found of the metrics sink (no configuration
\* file, tracking server inactive, tracking server active), an evaluation
\* whose retrieval calls all succeeded ends without raising, with hit_rate and
\* mrr computed from the counters alone.
C11_SinkNeverRaises ==
    (eval_pc \in {"done", "error"} /\ eval_exc \notin EvalExceptions)
        => /\ eval_pc = "done"
           /\ eval_exc = None
           /\ hit_rate = HitRate(correct, num_examples)
           /\ mrr = Mrr(reciprocal_rank, num_examples)

\* ----------------------------------------------------- persisted index blob

\* C12: the blob file is write-once. In a run whose existence check found the
\* file, the file is left as found and the store the run ends with is the one
\* deserialized from it; the file is written only in a run whose check found
\* it absent; and over any sequence of runs no step changes a file that exists.
C12_WriteOnce ==
    /\ [](index_pc \in {"branch", "done", "error"} =>
            /\ file_at_check.exists =>
                 /\ vector_store_file = file_at_check
                 /\ CREATE_NEW = "False"
                 /\ index_pc = "done" =>
                      vec_db = DeserializeFromBytes(PickleLoad(file_at_check.bytes))
            /\ vector_store_file # file_at_check => CREATE_NEW = "True")
    /\ [][vector_store_file.exists => vector_store_file' = vector_store_file]_vars

\* A later run on a different corpus has loaded the blob an earlier run wrote.
C12_Witness ==
    /\ run >= 2
    /\ index_pc = "done"
    /\ file_at_check.exists
    /\ vec_db = DeserializeFromBytes(PickleLoad(vector_store_file.bytes))
    /\ vec_db.docs # documents

\* ------------------------------------------------------ retrieval failures

\* C13: once a loop body has raised (the retrieval call failed, or a returned
\* document has no unique_id), the evaluation has ended in that error: the
\* failing example was not consumed, the loop went no further, and no hit_rate
\* or mrr was computed or logged.
C13_RetrievalFailureEndsRun ==
    eval_exc \in EvalExceptions
        => /\ eval_pc = "error"
           /\ i < Len(EvalSlice)
           /\ Len(ranks) = i
           /\ hit_rate = NoneFloat
           /\ mrr = NoneFloat
           /\ mlflow_runs = << >>

\* A later example fails after earlier ones were found, with the sink active.
C13_Witness ==
    /\ eval_pc = "error"
    /\ eval_exc \in EvalExceptions
    /\ i >= 1
    /\ correct >= 1
    /\ mlflow_available = "True"

\* ------------------------------------------------------- failing batches

ScoringExceptions == {"ClientError", "IndexError"}

\* C14 as stated: once some scoring call has failed, no further scoring call
\* is started.
C14_FailFast ==
    [][Failed(results) # {} => invocations' = invocations]_vars

\* C14: a batch that ends in a scoring failure has not been aborted: when the
\* failure is surfaced every triple has been submitted, the scoring call of
\* every triple has been started and has finished, and no mean is returned.
C14_FailureSurfacesAfterAll ==
    (batch_pc = "error" /\ batch_exc.type \in ScoringExceptions)
        => /\ Len(results) = Len(questions)
           /\ \A f \in 1..Len(results) : results[f].state = "FINISHED"
           /\ Len(invocations) = Len(results)
           /\ work_queue = << >>
           /\ NoMeans

\* The first max_workers calls all failed and a later call was still scored:
\* it can only have been started by a worker freed by one of those failures.
C14_Witness ==
    /\ batch_pc = "error"
    /\ batch_exc.type \in ScoringExceptions
    /\ Len(results) > max_workers
    /\ \A f \in 1..max_workers : f \in Failed(results)
    /\ results[max_workers + 1].state = "FINISHED"
    /\ results[max_workers + 1].outcome.exception = None

\* ------------------------------------------------------- counter ordering

RatLeq(a, b) == a.num * b.den <= b.num * a.den

\* C15: after every iteration of the evaluation loop
\* 0 <= reciprocal-rank sum <= hits <= examples processed <= num_examples,
\* and once the metrics are computed 0 <= MRR <= Hit Rate <= 1.
C15_CounterOrdering ==
    /\ 0 <= reciprocal_rank
    /\ reciprocal_rank <= correct * RRScale
    /\ correct <= i
    /\ i <= num_examples
    /\ hit_rate # NoneFloat =>
         /\ mrr # NoneFloat
         /\ RatLeq([num |-> 0, den |-> 1], mrr)
         /\ RatLeq(mrr, hit_rate)
         /\ RatLeq(hit_rate, [num |-> 1, den |-> 1])

\* A finished run in which every inequality between the counters is strict.
C15_Witness ==
    /\ eval_pc = "done"
    /\ 0 < reciprocal_rank
    /\ reciprocal_rank < correct * RRScale
    /\ correct < i
    /\ i < num_examples
    /\ ~RatLeq(hit_rate, mrr)
====
